---- MODULE Spec2Model ----
(***************************************************************************)
(* Model of the construction-tracking REST API: the house-activity status  *)
(* derivation and the activity -> house -> project progress rollup         *)
(* (routes/auth.js house-activities section, routes/houses.js,             *)
(* routes/projects.js), over the relational store of database_schema.sql.  *)
(***************************************************************************)
EXTENDS Integers, Sequences, FiniteSets, TLC

\* ------------------------------------------------------------------ bounds
NumTemplates == 2
MaxCounter == 2

\* ------------------------------------------------------------- value sets
NULL == "NULL"          \* SQL NULL / JS null for dates, user ids and remarks
NoProject == 0          \* SQL NULL in app_houses.project_id
NullText == <<"NULL">>  \* SQL NULL in a text column modelled as a character sequence
NOW == "now"            \* value of NOW() in an UPDATE
D1 == "d1"              \* a date sent by a client

HouseIds == {1}
ProjectIds == {1}
TemplateIds == 1..NumTemplates

Surveyors == {"s1", "s2"}
Reviewers == {"r1"}
Admins == {"a1"}
Users == Surveyors \cup Reviewers \cup Admins

role(u) == IF u \in Surveyors THEN "surveyor"
           ELSE IF u \in Reviewers THEN "reviewer" ELSE "admin"

ActivityStatuses == {"pending", "in_progress", "review", "completed", "blocked", "rejected"}
HouseStatuses == {"in_progress", "completed", "delayed"}

VARIABLES
    templates,   \* app_activities: the ids of the rows with is_active = TRUE
    projects,    \* app_projects: id -> [housesCompleted, totalHouses]
    houses,      \* app_houses: id -> [projectId, status, progress, completedActivities, totalActivities]
    acts,        \* app_house_activities: <<houseId, templateId>> -> row
    last,        \* the last request that was answered 2xx or wrote to the store
    inflight     \* the house-activity updates being handled at once: slot -> the position
                 \* of the handler and the values it has read so far

vars == <<templates, projects, houses, acts, last, inflight>>

Tables == [projects |-> projects, houses |-> houses, acts |-> acts]

\* ---------------------------------------------------------------- helpers
Has(body, f) == f \in DOMAIN body

\* JS truthiness of a value that is a string or null
Truthy(v) == v # NULL /\ v # ""

RECURSIVE TrimLeft(_)
TrimLeft(s) == IF s # <<>> /\ Head(s) = " " THEN TrimLeft(Tail(s)) ELSE s

RECURSIVE TrimRight(_)
TrimRight(s) == IF s # <<>> /\ s[Len(s)] = " " THEN TrimRight(SubSeq(s, 1, Len(s) - 1)) ELSE s

\* String.prototype.trim on a character sequence
Trim(s) == TrimRight(TrimLeft(s))

RECURSIVE GCD(_, _)
GCD(a, b) == IF b = 0 THEN a ELSE GCD(b, a % b)

\* an exact fraction in lowest terms
Frac(n, d) == LET g == GCD(n, d) IN IF g = 0 THEN <<0, 1>> ELSE <<n \div g, d \div g>>

Drop(f, k) == [x \in (DOMAIN f) \ {k} |-> f[x]]

Put(f, k, v) == [x \in (DOMAIN f) \cup {k} |-> IF x = k THEN v ELSE f[x]]

\* ------------------------------------------------ PUT /api/house-activities/:id
isReviewer(caller) == role(caller) \in {"reviewer", "admin"}

isSurveyor(caller) == role(caller) = "surveyor"

\* the "start_date = NOW()" / "completion_date = NOW()" assignments pushed first
NowUpdates(ex, body) ==
    (IF ex.startDate = NULL /\ Has(body, "status") /\ body.status \in {"pending", "review"}
        THEN <<(<<"startDate", NOW>>)>> ELSE <<>>)
    \o (IF ex.completionDate = NULL /\ Has(body, "status") /\ body.status = "completed"
        THEN <<(<<"completionDate", NOW>>)>> ELSE <<>>)

\* the assignments of the surveyor branch
SurveyorUpdates(caller, body) ==
    IF isSurveyor(caller) /\ (~Has(body, "appUserId") \/ body.appUserId = caller)
    THEN (IF Has(body, "startDate")
            THEN <<(<<"startDate", IF Truthy(body.startDate) THEN body.startDate ELSE NULL>>)>>
            ELSE <<>>)
         \o (IF Has(body, "completionDate")
            THEN <<(<<"completionDate", IF Truthy(body.completionDate) THEN body.completionDate ELSE NULL>>)>>
            ELSE <<>>)
         \o (IF Has(body, "remarks") THEN <<(<<"remarks", body.remarks>>)>> ELSE <<>>)
         \o (IF Has(body, "appUserId") THEN <<(<<"appUserId", body.appUserId>>)>> ELSE <<>>)
    ELSE <<>>

\* a reviewer/admin branch that does not store the status of the request
ReviewerUpdatesWithoutStatus(caller, body) ==
    IF isReviewer(caller)
    THEN (IF Has(body, "approvedById")
            THEN <<(<<"approvedById", body.approvedById>>),
                   (<<"approvedAt", IF Truthy(body.approvedById) THEN NOW ELSE NULL>>)>>
            ELSE <<>>)
         \o (IF Has(body, "isBlocked") THEN <<(<<"isBlocked", body.isBlocked>>)>> ELSE <<>>)
         \o (IF Has(body, "remarks") THEN <<(<<"remarks", body.remarks>>)>> ELSE <<>>)
         \o (IF Has(body, "rejectedRemarks") THEN <<(<<"rejectedRemarks", body.rejectedRemarks>>)>> ELSE <<>>)
    ELSE <<>>

\* the assignments of the reviewer/admin branch (the status is validated by the caller of this)
ReviewerUpdates(caller, body) ==
    IF isReviewer(caller)
    THEN (IF Has(body, "approvedById")
            THEN <<(<<"approvedById", body.approvedById>>),
                   (<<"approvedAt", IF Truthy(body.approvedById) THEN NOW ELSE NULL>>)>>
            ELSE <<>>)
         \o (IF Has(body, "isBlocked") THEN <<(<<"isBlocked", body.isBlocked>>)>> ELSE <<>>)
         \o (IF Has(body, "remarks") THEN <<(<<"remarks", body.remarks>>)>> ELSE <<>>)
         \o (IF Has(body, "rejectedRemarks") THEN <<(<<"rejectedRemarks", body.rejectedRemarks>>)>> ELSE <<>>)
         \o (IF Has(body, "status") THEN <<(<<"status", body.status>>)>> ELSE <<>>)
    ELSE <<>>

\* the reviewer branch answers 400 for a status outside the enum
InvalidReviewerStatus(caller, body) ==
    isReviewer(caller) /\ Has(body, "status") /\ body.status \notin ActivityStatuses


\* a derivation that tests the rejection remarks without trimming them
DerivedStatusUntrimmed(ex, body) ==
    LET blockedValue == IF Has(body, "isBlocked") THEN body.isBlocked ELSE ex.isBlocked
        rejectedValue == IF Has(body, "rejectedRemarks") THEN body.rejectedRemarks ELSE ex.rejectedRemarks
        completionValue == IF Has(body, "completionDate") THEN body.completionDate ELSE ex.completionDate
        approvedValue == IF Has(body, "approvedById") THEN body.approvedById ELSE ex.approvedById
        startValue == IF Has(body, "startDate") THEN body.startDate ELSE ex.startDate
    IN  IF blockedValue = TRUE THEN "blocked"
        ELSE IF rejectedValue # NullText /\ rejectedValue # <<>> THEN "rejected"
        ELSE IF Truthy(completionValue) /\ Truthy(approvedValue) THEN "completed"
        ELSE IF Truthy(completionValue) /\ ~Truthy(approvedValue) THEN "review"
        ELSE IF Truthy(startValue) THEN "in_progress"
        ELSE "pending"

\* the precedence chain over the effective values (request value if present, else stored)
DerivedStatus(ex, body) ==
    LET blockedValue == IF Has(body, "isBlocked") THEN body.isBlocked ELSE ex.isBlocked
        rejectedValue == IF Has(body, "rejectedRemarks") THEN body.rejectedRemarks ELSE ex.rejectedRemarks
        completionValue == IF Has(body, "completionDate") THEN body.completionDate ELSE ex.completionDate
        approvedValue == IF Has(body, "approvedById") THEN body.approvedById ELSE ex.approvedById
        startValue == IF Has(body, "startDate") THEN body.startDate ELSE ex.startDate
    IN  IF blockedValue = TRUE THEN "blocked"
        ELSE IF rejectedValue # NullText /\ rejectedValue # <<>> /\ Trim(rejectedValue) # <<>> THEN "rejected"
        ELSE IF Truthy(completionValue) /\ Truthy(approvedValue) THEN "completed"
        ELSE IF Truthy(completionValue) /\ ~Truthy(approvedValue) THEN "review"
        ELSE IF Truthy(startValue) THEN "in_progress"
        ELSE "pending"

\* newStatus: the explicit status of a reviewer/admin, else the derived one
NewStatus(ex, caller, body) ==
    IF Has(body, "status") /\ isReviewer(caller) THEN body.status ELSE DerivedStatus(ex, body)

hasStatusUpdate(updates) == \E i \in 1..Len(updates) : updates[i][1] = "status"

\* the whole SET list of the UPDATE app_house_activities statement
ActivityUpdates(ex, caller, body) ==
    LET updates == NowUpdates(ex, body) \o SurveyorUpdates(caller, body) \o ReviewerUpdates(caller, body)
        newStatus == NewStatus(ex, caller, body)
    IN  IF ~(Has(body, "status") /\ isReviewer(caller))
           /\ newStatus # ex.status /\ ~hasStatusUpdate(updates)
        THEN updates \o <<(<<"status", newStatus>>)>>
        ELSE updates

\* PostgreSQL refuses a SET list that assigns one column twice
MultipleAssignments(updates) ==
    \E i, j \in 1..Len(updates) : i < j /\ updates[i][1] = updates[j][1]

RECURSIVE ApplyUpdates(_, _)
ApplyUpdates(row, updates) ==
    IF updates = <<>> THEN row
    ELSE ApplyUpdates([f \in DOMAIN row |-> IF f = Head(updates)[1] THEN Head(updates)[2] ELSE row[f]],
                      Tail(updates))


\* a recount that takes activities under review for completed ones
CompletedCountWithReview(A, h) ==
    Cardinality({k \in DOMAIN A : k[1] = h /\ A[k].status \in {"completed", "review"}})

\* SELECT COUNT(*) FROM app_house_activities WHERE house_id = h AND status = 'completed'
CompletedCount(A, h) == Cardinality({k \in DOMAIN A : k[1] = h /\ A[k].status = "completed"})


\* a progress that is the bare ratio, not a percentage
ProgressAsRatio(completedActivities, totalActivities) ==
    IF totalActivities > 0 THEN Frac(completedActivities, totalActivities) ELSE <<0, 1>>

\* progress = total > 0 ? completed / total * 100 : 0, as an exact fraction
Progress(completedActivities, totalActivities) ==
    IF totalActivities > 0 THEN Frac(completedActivities * 100, totalActivities) ELSE <<0, 1>>

\* a regression that marks the house delayed
RollupHouseStatusDelays(completedActivities, totalActivities, previousHouseStatus) ==
    IF completedActivities = totalActivities /\ completedActivities # 0 THEN "completed"
    ELSE IF completedActivities < totalActivities /\ previousHouseStatus = "completed" THEN "delayed"
    ELSE previousHouseStatus

\* the automatic house status of the house-activities handler
RollupHouseStatus(completedActivities, totalActivities, previousHouseStatus) ==
    IF completedActivities = totalActivities /\ completedActivities # 0 THEN "completed"
    ELSE IF completedActivities < totalActivities /\ previousHouseStatus = "completed" THEN "in_progress"
    ELSE previousHouseStatus


\* an increment by two
IncrementTwice(P, pid) ==
    IF pid \in DOMAIN P THEN [P EXCEPT ![pid].housesCompleted = @ + 2] ELSE P

Increment(P, pid) ==
    IF pid \in DOMAIN P THEN [P EXCEPT ![pid].housesCompleted = @ + 1] ELSE P

Greatest(a, b) == IF a >= b THEN a ELSE b


\* a decrement without the floor at 0
DecrementUnfloored(P, pid) ==
    IF pid \in DOMAIN P THEN [P EXCEPT ![pid].housesCompleted = @ - 1] ELSE P

Decrement(P, pid) ==
    IF pid \in DOMAIN P THEN [P EXCEPT ![pid].housesCompleted = Greatest(@ - 1, 0)] ELSE P

\* a handler that runs the house rollup after every update
ActivityWritesAlwaysRollup(T, caller, id, body) ==
    LET ex == T.acts[id]
        newStatus == NewStatus(ex, caller, body)
        h == id[1]
        T1 == [T EXCEPT !.acts[id] = ApplyUpdates(ex, ActivityUpdates(ex, caller, body))]
        changed == TRUE
        completedActivities == CompletedCount(T1.acts, h)
        totalActivities == T1.houses[h].totalActivities
        previousHouseStatus == T1.houses[h].status
        projectId == T1.houses[h].projectId
        T2 == [T1 EXCEPT !.houses[h].completedActivities = completedActivities,
                         !.houses[h].progress = Progress(completedActivities, totalActivities)]
        newHouseStatus == RollupHouseStatus(completedActivities, totalActivities, previousHouseStatus)
        T3 == [T2 EXCEPT !.houses[h].status = newHouseStatus]
        T4 == IF newHouseStatus = "completed" /\ previousHouseStatus # "completed"
              THEN [T3 EXCEPT !.projects = Increment(T3.projects, projectId)]
              ELSE [T3 EXCEPT !.projects = Decrement(T3.projects, projectId)]
        projectWrite == projectId # NoProject
                        /\ (newHouseStatus = "completed") # (previousHouseStatus = "completed")
    IN  <<T1>>
        \o (IF changed /\ h \in DOMAIN T1.houses
            THEN <<T2>> \o (IF newHouseStatus # previousHouseStatus
                            THEN <<T3>> \o (IF projectWrite THEN <<T4>> ELSE <<>>)
                            ELSE <<>>)
            ELSE <<>>)

\* The store writes of one PUT, in the order the handler issues them: the tables
\* after each write (every pool.query is its own autocommitted statement).
ActivityWrites(T, caller, id, body) ==
    LET ex == T.acts[id]
        newStatus == NewStatus(ex, caller, body)
        h == id[1]
        T1 == [T EXCEPT !.acts[id] = ApplyUpdates(ex, ActivityUpdates(ex, caller, body))]
        changed == (ex.status # "completed" /\ newStatus = "completed")
                   \/ (ex.status = "completed" /\ newStatus # "completed")
        completedActivities == CompletedCount(T1.acts, h)
        totalActivities == T1.houses[h].totalActivities
        previousHouseStatus == T1.houses[h].status
        projectId == T1.houses[h].projectId
        T2 == [T1 EXCEPT !.houses[h].completedActivities = completedActivities,
                         !.houses[h].progress = Progress(completedActivities, totalActivities)]
        newHouseStatus == RollupHouseStatus(completedActivities, totalActivities, previousHouseStatus)
        T3 == [T2 EXCEPT !.houses[h].status = newHouseStatus]
        T4 == IF newHouseStatus = "completed" /\ previousHouseStatus # "completed"
              THEN [T3 EXCEPT !.projects = Increment(T3.projects, projectId)]
              ELSE [T3 EXCEPT !.projects = Decrement(T3.projects, projectId)]
        projectWrite == projectId # NoProject
                        /\ (newHouseStatus = "completed") # (previousHouseStatus = "completed")
    IN  <<T1>>
        \o (IF changed /\ h \in DOMAIN T1.houses
            THEN <<T2>> \o (IF newHouseStatus # previousHouseStatus
                            THEN <<T3>> \o (IF projectWrite THEN <<T4>> ELSE <<>>)
                            ELSE <<>>)
            ELSE <<>>)

\* the response code the handler gives before it writes anything, or 0 if it goes on to write
ActivityEarlyCode(T, caller, id, body) ==
    IF id \notin DOMAIN T.acts THEN 404
    ELSE IF InvalidReviewerStatus(caller, body) THEN 400
    ELSE IF ActivityUpdates(T.acts[id], caller, body) = <<>> THEN 400
    ELSE IF MultipleAssignments(ActivityUpdates(T.acts[id], caller, body)) THEN 500
    ELSE 0

\* the handler with write number `fault` failing (0: no failure)
UpdateHouseActivityResult(T, caller, id, body, fault) ==
    LET early == ActivityEarlyCode(T, caller, id, body)
    IN  IF early # 0 THEN [code |-> early, tables |-> T]
        ELSE LET w == ActivityWrites(T, caller, id, body)
             IN  IF fault = 0 THEN [code |-> 200, tables |-> w[Len(w)]]
                 ELSE IF fault = 1 THEN [code |-> 500, tables |-> T]
                 ELSE [code |-> 500, tables |-> w[fault - 1]]

\* ------------------------------------------------------------ POST /api/houses
\* a new house activity that starts in progress
NewActivityRowInProgress ==
    [status |-> "in_progress", startDate |-> NULL, completionDate |-> NULL, isBlocked |-> FALSE,
     rejectedRemarks |-> NullText, approvedById |-> NULL, approvedAt |-> NULL,
     appUserId |-> NULL, remarks |-> NULL]

NewActivityRow ==
    [status |-> "pending", startDate |-> NULL, completionDate |-> NULL, isBlocked |-> FALSE,
     rejectedRemarks |-> NullText, approvedById |-> NULL, approvedAt |-> NULL,
     appUserId |-> NULL, remarks |-> NULL]

requireRole(caller, roles) == role(caller) \in roles

\* the status of the request, "in_progress" by default
HouseBodyStatus(body) == IF Has(body, "status") THEN body.status ELSE "in_progress"

HouseBodyProject(body) == IF Has(body, "projectId") THEN body.projectId ELSE NoProject

CreateHouseEarlyCode(T, active, caller, body) ==
    IF ~requireRole(caller, {"admin", "reviewer"}) THEN 403
    ELSE IF ~Has(body, "name") THEN 400
    ELSE IF HouseBodyStatus(body) \notin HouseStatuses THEN 400
    ELSE IF HouseBodyProject(body) # NoProject /\ HouseBodyProject(body) \notin DOMAIN T.projects THEN 400
    ELSE IF active = {} THEN 400
    ELSE 0

\* the tables at COMMIT: the house row, one activity per active template, the project counter
CreateHouseCommitted(T, active, body, houseId) ==
    LET status == HouseBodyStatus(body)
        projectId == HouseBodyProject(body)
        totalActivities == Cardinality(active)
        row == [projectId |-> projectId, status |-> status, progress |-> <<0, 1>>,
                completedActivities |-> 0, totalActivities |-> totalActivities]
        A == [k \in (DOMAIN T.acts) \cup ({houseId} \X active) |->
                 IF k[1] = houseId THEN NewActivityRow ELSE T.acts[k]]
    IN  [projects |-> IF status = "completed" /\ projectId # NoProject
                      THEN Increment(T.projects, projectId) ELSE T.projects,
         houses |-> Put(T.houses, houseId, row),
         acts |-> A]

\* fault 0: none; 1: a statement inside the transaction fails (ROLLBACK);
\* 2: the read-back SELECT after COMMIT fails
CreateHouseResult(T, active, caller, body, houseId, fault) ==
    LET early == CreateHouseEarlyCode(T, active, caller, body)
    IN  IF early # 0 THEN [code |-> early, tables |-> T]
        ELSE IF fault = 1 THEN [code |-> 500, tables |-> T]
        ELSE [code |-> IF fault = 0 THEN 201 ELSE 500,
              tables |-> CreateHouseCommitted(T, active, body, houseId)]

\* the active templates in the order of the INSERT loop
RECURSIVE ActiveSeq(_)
ActiveSeq(active) ==
    IF active = {} THEN <<>>
    ELSE LET t == CHOOSE x \in active : \A y \in active : x <= y
         IN  <<t>> \o ActiveSeq(active \ {t})

\* The statements of the transaction in the order the handler issues them: the tables
\* after the INSERT of the house (total_activities 0), after each INSERT of a house
\* activity, after the UPDATE of total_activities and after the UPDATE of the project.
CreateHouseWrites(T, active, body, houseId) ==
    LET status == HouseBodyStatus(body)
        projectId == HouseBodyProject(body)
        order == ActiveSeq(active)
        row == [projectId |-> projectId, status |-> status, progress |-> <<0, 1>>,
                completedActivities |-> 0, totalActivities |-> 0]
        T1 == [T EXCEPT !.houses = Put(T.houses, houseId, row)]
        inserted(j) == [T1 EXCEPT !.acts =
                           [k \in (DOMAIN T.acts) \cup {<<houseId, order[i]>> : i \in 1..j} |->
                               IF k[1] = houseId THEN NewActivityRow ELSE T.acts[k]]]
        counted == [inserted(Len(order)) EXCEPT !.houses[houseId].totalActivities = Len(order)]
    IN  <<T1>> \o [j \in 1..Len(order) |-> inserted(j)] \o <<counted>>
        \o (IF status = "completed" /\ projectId # NoProject
            THEN <<[counted EXCEPT !.projects = Increment(counted.projects, projectId)]>>
            ELSE <<>>)

\* the no-rollback variant: what the statements wrote stays
KeepPartial(before, partial) == partial

\* ROLLBACK in the catch block: the store is as it was at BEGIN
Rollback(before, partial) == before

\* statement number `fault` of the transaction fails
CreateHouseFaultResult(T, active, caller, body, houseId, fault) ==
    LET early == CreateHouseEarlyCode(T, active, caller, body)
        w == CreateHouseWrites(T, active, body, houseId)
    IN  IF early # 0 THEN [code |-> early, tables |-> T]
        ELSE [code |-> 500, tables |-> Rollback(T, IF fault = 1 THEN T ELSE w[fault - 1])]

\* ---------------------------------------------------- PUT /api/activities/:id
\* the active templates after the request (a template row exists for every TemplateIds)
UpdateActivityResult(active, caller, t, body) ==
    IF ~requireRole(caller, {"admin", "reviewer"}) THEN [code |-> 403, active |-> active]
    ELSE IF ~Has(body, "num") THEN [code |-> 400, active |-> active]
    ELSE IF t \notin TemplateIds THEN [code |-> 404, active |-> active]
    ELSE [code |-> 200,
          active |-> IF Has(body, "isActive") /\ body.isActive \in BOOLEAN
                     THEN (IF body.isActive THEN active \cup {t} ELSE active \ {t})
                     ELSE active]

\* ------------------------------------------------------- PUT /api/houses/:id
\* the SET list of UPDATE app_houses: <<column, value, placeholder>>; the handler adds
\* the literal text "progress = ?" where every other entry is numbered "$n"
HouseUpdates(ex, body) ==
    LET newCompleted == IF Has(body, "completedActivities") THEN body.completedActivities
                        ELSE ex.completedActivities
        newTotal == IF Has(body, "totalActivities") THEN body.totalActivities ELSE ex.totalActivities
        fields == (IF Has(body, "projectId") THEN <<(<<"projectId", body.projectId, "$n">>)>> ELSE <<>>)
                  \o (IF Has(body, "name") THEN <<(<<"name", body.name, "$n">>)>> ELSE <<>>)
                  \o (IF Has(body, "status") THEN <<(<<"status", body.status, "$n">>)>> ELSE <<>>)
                  \o (IF Has(body, "completedActivities")
                      THEN <<(<<"completedActivities", body.completedActivities, "$n">>)>> ELSE <<>>)
                  \o (IF Has(body, "totalActivities")
                      THEN <<(<<"totalActivities", body.totalActivities, "$n">>)>> ELSE <<>>)
        auto == IF Has(body, "status") THEN <<>>
                ELSE IF newCompleted = newTotal /\ newCompleted # 0 /\ ex.status # "completed"
                     THEN <<(<<"status", "completed", "$n">>)>>
                ELSE IF newCompleted < newTotal /\ ex.status = "completed"
                     THEN <<(<<"status", "in_progress", "$n">>)>>
                ELSE <<>>
    IN  IF fields = <<>> THEN <<>>
        ELSE fields \o <<(<<"progress", Progress(newCompleted, newTotal), "?">>)>> \o auto

\* newHouseStatus of the house handler
HouseNewStatus(ex, body) ==
    LET newCompleted == IF Has(body, "completedActivities") THEN body.completedActivities
                        ELSE ex.completedActivities
        newTotal == IF Has(body, "totalActivities") THEN body.totalActivities ELSE ex.totalActivities
    IN  IF Has(body, "status") THEN body.status
        ELSE IF newCompleted = newTotal /\ newCompleted # 0 /\ ex.status # "completed" THEN "completed"
        ELSE IF newCompleted < newTotal /\ ex.status = "completed" THEN "in_progress"
        ELSE ex.status

\* a store that accepts the statement of the house handler as written
StatementAccepted(updates) == FALSE

\* node-postgres sends the text as written; PostgreSQL has no "?" placeholder
StatementRejected(updates) == \E i \in 1..Len(updates) : updates[i][3] = "?"

HouseEarlyCode(T, caller, h, body) ==
    IF ~requireRole(caller, {"admin", "reviewer"}) THEN 403
    ELSE IF h \notin DOMAIN T.houses THEN 404
    ELSE IF Has(body, "projectId") /\ body.projectId # NoProject
            /\ body.projectId \notin DOMAIN T.projects THEN 400
    ELSE IF Has(body, "status") /\ body.status \notin HouseStatuses THEN 400
    ELSE IF HouseUpdates(T.houses[h], body) = <<>> THEN 400
    ELSE IF StatementRejected(HouseUpdates(T.houses[h], body)) THEN 500
    ELSE 0

RECURSIVE ApplyHouseUpdates(_, _)
ApplyHouseUpdates(row, updates) ==
    IF updates = <<>> THEN row
    ELSE ApplyHouseUpdates([f \in DOMAIN row |-> IF f = Head(updates)[1] THEN Head(updates)[2] ELSE row[f]],
                           Tail(updates))

\* the store writes of the house handler, in order (reached only by an accepted statement)
HouseWrites(T, h, body) ==
    LET ex == T.houses[h]
        currentStatus == ex.status
        previousProjectId == ex.projectId
        newProjectId == IF Has(body, "projectId") THEN body.projectId ELSE previousProjectId
        newHouseStatus == HouseNewStatus(ex, body)
        T1 == [T EXCEPT !.houses[h] = ApplyHouseUpdates(ex, HouseUpdates(ex, body))]
        dec == previousProjectId # NoProject /\ currentStatus = "completed"
        T2 == [T1 EXCEPT !.projects = Decrement(T1.projects, previousProjectId)]
        Tm == IF dec THEN T2 ELSE T1
        inc == newProjectId # NoProject /\ newHouseStatus = "completed"
        T3 == [Tm EXCEPT !.projects = Increment(Tm.projects, newProjectId)]
        T4 == [T1 EXCEPT !.projects = Increment(T1.projects, newProjectId)]
        T5 == [T1 EXCEPT !.projects = Decrement(T1.projects, newProjectId)]
    IN  <<T1>>
        \o (IF previousProjectId # newProjectId
            THEN (IF dec THEN <<T2>> ELSE <<>>) \o (IF inc THEN <<T3>> ELSE <<>>)
            ELSE IF currentStatus # newHouseStatus /\ newProjectId # NoProject
                 THEN (IF newHouseStatus = "completed" /\ currentStatus # "completed" THEN <<T4>>
                       ELSE IF newHouseStatus # "completed" /\ currentStatus = "completed" THEN <<T5>>
                       ELSE <<>>)
                 ELSE <<>>)

UpdateHouseResult(T, caller, h, body, fault) ==
    LET early == HouseEarlyCode(T, caller, h, body)
    IN  IF early # 0 THEN [code |-> early, tables |-> T]
        ELSE LET w == HouseWrites(T, h, body)
             IN  IF fault = 0 THEN [code |-> 200, tables |-> w[Len(w)]]
                 ELSE IF fault = 1 THEN [code |-> 500, tables |-> T]
                 ELSE [code |-> 500, tables |-> w[fault - 1]]

\* ---------------------------------------------------- DELETE /api/houses/:id
DeleteHouseEarlyCode(T, caller, h) ==
    IF ~requireRole(caller, {"admin"}) THEN 403
    ELSE IF h \notin DOMAIN T.houses THEN 404
    ELSE 0

\* a deletion that lowers the counter for a house of any status
DeleteHouseWritesAnyStatus(T, h) ==
    LET ex == T.houses[h]
        T1 == [T EXCEPT !.houses = Drop(T.houses, h),
                        !.acts = [k \in {x \in DOMAIN T.acts : x[1] # h} |-> T.acts[k]]]
        T2 == [T1 EXCEPT !.projects = Decrement(T1.projects, ex.projectId)]
    IN  <<T1>> \o (IF ex.projectId # NoProject THEN <<T2>> ELSE <<>>)

\* DELETE FROM app_houses (ON DELETE CASCADE removes the activities), then the project counter
DeleteHouseWrites(T, h) ==
    LET ex == T.houses[h]
        T1 == [T EXCEPT !.houses = Drop(T.houses, h),
                        !.acts = [k \in {x \in DOMAIN T.acts : x[1] # h} |-> T.acts[k]]]
        T2 == [T1 EXCEPT !.projects = Decrement(T1.projects, ex.projectId)]
    IN  <<T1>> \o (IF ex.status = "completed" /\ ex.projectId # NoProject THEN <<T2>> ELSE <<>>)

DeleteHouseResult(T, caller, h, fault) ==
    LET early == DeleteHouseEarlyCode(T, caller, h)
    IN  IF early # 0 THEN [code |-> early, tables |-> T]
        ELSE LET w == DeleteHouseWrites(T, h)
             IN  IF fault = 0 THEN [code |-> 200, tables |-> w[Len(w)]]
                 ELSE IF fault = 1 THEN [code |-> 500, tables |-> T]
                 ELSE [code |-> 500, tables |-> w[fault - 1]]

\* -------------------------------------------- DELETE /api/house-activities/:id
DeleteHouseActivityResult(T, caller, id) ==
    IF ~requireRole(caller, {"admin"}) THEN [code |-> 403, tables |-> T]
    ELSE IF id \notin DOMAIN T.acts THEN [code |-> 404, tables |-> T]
    ELSE [code |-> 200, tables |-> [T EXCEPT !.acts = Drop(T.acts, id)]]

\* ---------------------------------------------------------- /api/projects
\* POST: housesCompleted defaults to 0
CreateProjectResult(T, caller, body, projectId) ==
    LET housesCompleted == IF Has(body, "housesCompleted") THEN body.housesCompleted ELSE 0
    IN  IF ~requireRole(caller, {"admin", "reviewer"}) THEN [code |-> 403, tables |-> T]
        ELSE IF ~Has(body, "title") THEN [code |-> 400, tables |-> T]
        ELSE IF ~Has(body, "totalHouses") \/ body.totalHouses < 0 THEN [code |-> 400, tables |-> T]
        ELSE IF housesCompleted < 0 THEN [code |-> 400, tables |-> T]
        ELSE IF housesCompleted > body.totalHouses THEN [code |-> 400, tables |-> T]
        ELSE [code |-> 201,
              tables |-> [T EXCEPT !.projects = Put(T.projects, projectId,
                              [housesCompleted |-> housesCompleted, totalHouses |-> body.totalHouses])]]

\* PUT
UpdateProjectResult(T, caller, projectId, body) ==
    IF ~requireRole(caller, {"admin", "reviewer"}) THEN [code |-> 403, tables |-> T]
    ELSE IF projectId \notin DOMAIN T.projects THEN [code |-> 404, tables |-> T]
    ELSE LET ex == T.projects[projectId]
             currentTotal == IF Has(body, "totalHouses") THEN body.totalHouses ELSE ex.totalHouses
             currentCompleted == IF Has(body, "housesCompleted") THEN body.housesCompleted
                                 ELSE ex.housesCompleted
         IN  IF Has(body, "totalHouses") /\ body.totalHouses < 0 THEN [code |-> 400, tables |-> T]
             ELSE IF Has(body, "housesCompleted") /\ body.housesCompleted < 0 THEN [code |-> 400, tables |-> T]
             ELSE IF currentCompleted > currentTotal THEN [code |-> 400, tables |-> T]
             ELSE IF DOMAIN body = {} THEN [code |-> 400, tables |-> T]
             ELSE [code |-> 200,
                   tables |-> [T EXCEPT !.projects[projectId] =
                                   [housesCompleted |-> currentCompleted, totalHouses |-> currentTotal]]]

\* DELETE: refused while a house references the project
DeleteProjectResult(T, caller, projectId) ==
    IF ~requireRole(caller, {"admin"}) THEN [code |-> 403, tables |-> T]
    ELSE IF projectId \notin DOMAIN T.projects THEN [code |-> 404, tables |-> T]
    ELSE IF \E h \in DOMAIN T.houses : T.houses[h].projectId = projectId THEN [code |-> 400, tables |-> T]
    ELSE [code |-> 200, tables |-> [T EXCEPT !.projects = Drop(T.projects, projectId)]]

\* ------------------------------------------------------------- request sets
EmptyBody == [f \in {} |-> NULL]

\* bodies of the house-activity update over the fields the status is derived from
WorkflowBodies ==
    {EmptyBody}
    \cup {[startDate |-> v] : v \in {NULL, D1}}
    \cup {[completionDate |-> v] : v \in {NULL, D1}}
    \cup {[isBlocked |-> b] : b \in BOOLEAN}
    \cup {[rejectedRemarks |-> t] : t \in {<<" ">>, <<"x">>}}
    \cup {[approvedById |-> v] : v \in {NULL, "r1"}}
    \cup {[status |-> s] : s \in ActivityStatuses \cup {"bogus"}}
    \cup {[completionDate |-> D1, approvedById |-> "r1"]}
    \cup {[startDate |-> D1, status |-> s] : s \in {"pending", "completed"}}

\* bodies over the assignee and the remarks, with one reviewer-only field
OwnerBodies ==
    {EmptyBody, [remarks |-> "r"], [startDate |-> D1], [isBlocked |-> TRUE]}
    \cup {[appUserId |-> u] : u \in Surveyors}
    \cup {[remarks |-> "r", appUserId |-> u] : u \in Surveyors}

ActivityBodies == WorkflowBodies \cup OwnerBodies

\* the requests of the completion scenarios: a surveyor reports completion; a reviewer
\* completes and approves, blocks, unblocks
RollupRequests ==
    {<<"s1", [completionDate |-> D1]>>}
    \cup {<<"r1", [completionDate |-> D1, approvedById |-> "r1"]>>}
    \cup {<<"r1", [isBlocked |-> TRUE]>>}

ActivityIds == HouseIds \X TemplateIds

HouseBodies ==
    {EmptyBody, [name |-> "n"]}
    \cup {[name |-> "n", projectId |-> p] : p \in ProjectIds}
    \cup {[name |-> "n", projectId |-> p, status |-> s] : p \in ProjectIds, s \in {"completed", "delayed"}}

HouseUpdateBodies ==
    {EmptyBody, [status |-> "completed"], [status |-> "bogus"], [projectId |-> NoProject]}
    \cup {[completedActivities |-> n] : n \in {0, NumTemplates, NumTemplates + 1}}

TotalHousesValues == {0, 1}

ProjectBodies ==
    {[totalHouses |-> 1]}
    \cup {[title |-> "t", totalHouses |-> n] : n \in TotalHousesValues}
    \cup {[title |-> "t", totalHouses |-> 1, housesCompleted |-> 1]}

ProjectUpdateBodies ==
    {EmptyBody}
    \cup {[housesCompleted |-> c] : c \in TotalHousesValues}
    \cup {[totalHouses |-> n] : n \in TotalHousesValues}

\* ------------------------------------------------------------------ actions
EmptyTables == [projects |-> [p \in {} |-> 0], houses |-> [h \in {} |-> 0], acts |-> [k \in {} |-> 0]]

NoRequest ==
    [op |-> "none", caller |-> "none", target |-> <<>>, body |-> EmptyBody, code |-> 0, floored |-> FALSE]

\* the store before any request: the activity templates, no project, no house
\* the handlers that may be in progress at once, and one that is not
Slots == {1, 2}

Idle ==
    [pc |-> "idle", caller |-> "none", id |-> <<>>, body |-> EmptyBody, existing |-> NewActivityRow,
     completedCount |-> 0,
     houseInfo |-> [totalActivities |-> 0, status |-> "in_progress", projectId |-> NoProject]]

NoneInFlight == [r \in Slots |-> Idle]

Init ==
    /\ templates = TemplateIds
    /\ projects = EmptyTables.projects
    /\ houses = EmptyTables.houses
    /\ acts = EmptyTables.acts
    /\ last = NoRequest
    /\ inflight = NoneInFlight

\* the request took a house out of completed (or deleted it) while the counter of its
\* project was 0, so that GREATEST(houses_completed - 1, 0) had to hold the counter at 0
Floored(after) ==
    \E h \in DOMAIN houses :
        /\ houses[h].status = "completed"
        /\ houses[h].projectId \in DOMAIN projects
        /\ projects[houses[h].projectId].housesCompleted = 0
        /\ (h \notin DOMAIN after.houses \/ after.houses[h].status # "completed")

\* one request handled to its response: the tables it leaves and the response code
Respond(op, caller, target, body, res) ==
    /\ \A p \in DOMAIN res.tables.projects : res.tables.projects[p].housesCompleted <= MaxCounter
    /\ projects' = res.tables.projects
    /\ houses' = res.tables.houses
    /\ acts' = res.tables.acts
    /\ IF res.code \in {200, 201} \/ res.tables # Tables
       THEN last' = [op |-> op, caller |-> caller, target |-> target, body |-> body, code |-> res.code,
                     floored |-> Floored(res.tables)]
       ELSE UNCHANGED last
    /\ UNCHANGED <<templates, inflight>>

\* the request carries a status that the reviewer/admin branch stores verbatim
Explicit(caller, body) == Has(body, "status") /\ isReviewer(caller)

UpdateHouseActivity(caller, id, body) ==
    /\ caller \in Users
    /\ Respond("updateHouseActivity", caller, id, body, UpdateHouseActivityResult(Tables, caller, id, body, 0))

CreateHouse(caller, body, houseId) ==
    /\ houseId \notin DOMAIN houses
    /\ Respond("createHouse", caller, <<houseId>>, body, CreateHouseResult(Tables, templates, caller, body, houseId, 0))

UpdateHouse(caller, h, body) ==
    /\ caller \in Users
    /\ Respond("updateHouse", caller, <<h>>, body, UpdateHouseResult(Tables, caller, h, body, 0))

DeleteHouse(caller, h) ==
    /\ caller \in Users
    /\ Respond("deleteHouse", caller, <<h>>, EmptyBody, DeleteHouseResult(Tables, caller, h, 0))

DeleteHouseActivity(caller, id) ==
    /\ caller \in Users
    /\ Respond("deleteHouseActivity", caller, id, EmptyBody, DeleteHouseActivityResult(Tables, caller, id))

CreateProject(caller, body, projectId) ==
    /\ projectId \notin DOMAIN projects
    /\ Respond("createProject", caller, <<projectId>>, body, CreateProjectResult(Tables, caller, body, projectId))

UpdateProject(caller, projectId, body) ==
    /\ caller \in Users
    /\ Respond("updateProject", caller, <<projectId>>, body, UpdateProjectResult(Tables, caller, projectId, body))

DeleteProject(caller, projectId) ==
    /\ caller \in Users
    /\ Respond("deleteProject", caller, <<projectId>>, EmptyBody, DeleteProjectResult(Tables, caller, projectId))

\* the creation and update requests, one at a time
Callers == {"s1", "r1"}

Next ==
    \/ \E req \in RollupRequests, id \in ActivityIds : UpdateHouseActivity(req[1], id, req[2])
    \/ \E caller \in Callers, body \in HouseBodies, h \in HouseIds : CreateHouse(caller, body, h)
    \/ \E caller \in Callers, h \in HouseIds, body \in HouseUpdateBodies : UpdateHouse(caller, h, body)
    \/ \E caller \in Callers, body \in ProjectBodies, p \in ProjectIds : CreateProject(caller, body, p)
    \/ \E caller \in Callers, p \in ProjectIds, body \in ProjectUpdateBodies : UpdateProject(caller, p, body)

Spec == Init /\ [][Next]_vars

\* ---------------------------------------------- one activity, every kind of update
\* the store after an admin created a project and one house in it while one template was active
DeriveTables ==
    LET T1 == CreateProjectResult(EmptyTables, "a1", [title |-> "t", totalHouses |-> 1], 1).tables
    IN  CreateHouseResult(T1, {1}, "a1", [name |-> "n", projectId |-> 1], 1, 0).tables

InitDerive ==
    /\ templates = {1}
    /\ projects = DeriveTables.projects
    /\ houses = DeriveTables.houses
    /\ acts = DeriveTables.acts
    /\ last = NoRequest
    /\ inflight = NoneInFlight

\* the activity of that house, and an id that names no row
DeriveIds == {<<1, 1>>, <<1, 2>>}

NextDerive ==
    \E caller \in {"s1", "r1"}, id \in DeriveIds, body \in WorkflowBodies : UpdateHouseActivity(caller, id, body)

SpecDerive == InitDerive /\ [][NextDerive]_vars

\* ------------------------------------------------- one activity, two surveyors
NextOwner ==
    \E caller \in {"s1", "s2", "r1"}, id \in DeriveIds, body \in OwnerBodies : UpdateHouseActivity(caller, id, body)

SpecOwner == InitDerive /\ [][NextOwner]_vars

\* -------------------------------------------------- the whole API, with deletes
NextApi ==
    \/ Next
    \/ \E caller \in {"r1", "a1"}, h \in HouseIds : DeleteHouse(caller, h)
    \/ \E caller \in {"r1", "a1"}, id \in ActivityIds : DeleteHouseActivity(caller, id)
    \/ \E caller \in {"r1", "a1"}, p \in ProjectIds : DeleteProject(caller, p)

SpecApi == Init /\ [][NextApi]_vars

\* ------------------------------------------- store writes that fail part-way
\* a PUT /api/house-activities/:id whose write number `fault` fails (the one after
\* the last write is the read-back SELECT)
UpdateHouseActivityFault(caller, id, body, fault) ==
    /\ ActivityEarlyCode(Tables, caller, id, body) = 0
    /\ fault \in 1..(Len(ActivityWrites(Tables, caller, id, body)) + 1)
    /\ Respond("updateHouseActivity", caller, id, body, UpdateHouseActivityResult(Tables, caller, id, body, fault))

\* the activity UPDATE, the house counters, the house status, the project counter, the read-back
WriteNumbers == 1..5

FaultRequests == RollupRequests \cup {<<"r1", [isBlocked |-> FALSE]>>}

NextFault ==
    \/ \E req \in FaultRequests, id \in DeriveIds : UpdateHouseActivity(req[1], id, req[2])
    \/ \E req \in FaultRequests, id \in DeriveIds, fault \in WriteNumbers :
          UpdateHouseActivityFault(req[1], id, req[2], fault)

SpecFault == InitDerive /\ [][NextFault]_vars

\* ----------------------------------------- house creation and the templates
TemplateBodies == {[isActive |-> FALSE], [num |-> "1"]} \cup {[num |-> "1", isActive |-> b] : b \in BOOLEAN}

UpdateActivity(caller, t, body) ==
    LET res == UpdateActivityResult(templates, caller, t, body)
    IN  /\ templates' = res.active
        /\ IF res.code = 200
           THEN last' = [op |-> "updateActivity", caller |-> caller, target |-> <<t>>, body |-> body,
                         code |-> res.code, floored |-> FALSE]
           ELSE UNCHANGED last
        /\ UNCHANGED <<projects, houses, acts, inflight>>

\* a POST /api/houses whose statement number `fault` fails inside the transaction
CreateHouseFault(caller, body, houseId, fault) ==
    /\ houseId \notin DOMAIN houses
    /\ CreateHouseEarlyCode(Tables, templates, caller, body) = 0
    /\ fault \in 1..Len(CreateHouseWrites(Tables, templates, body, houseId))
    /\ LET res == CreateHouseFaultResult(Tables, templates, caller, body, houseId, fault)
       IN  /\ projects' = res.tables.projects
           /\ houses' = res.tables.houses
           /\ acts' = res.tables.acts
           /\ last' = [op |-> "createHouse", caller |-> caller, target |-> <<houseId>>, body |-> body,
                       code |-> res.code, floored |-> FALSE]
    /\ UNCHANGED <<templates, inflight>>

\* the house insert, one insert per template, the total, the project counter
StatementNumbers == 1..(NumTemplates + 3)

NextCreate ==
    \/ \E caller \in Callers, t \in TemplateIds, body \in TemplateBodies : UpdateActivity(caller, t, body)
    \/ \E caller \in Callers, body \in ProjectBodies, p \in ProjectIds : CreateProject(caller, body, p)
    \/ \E caller \in Callers, body \in HouseBodies, h \in HouseIds : CreateHouse(caller, body, h)
    \/ \E caller \in Callers, body \in HouseBodies, h \in HouseIds, fault \in StatementNumbers :
          CreateHouseFault(caller, body, h, fault)
    \/ \E h \in HouseIds : DeleteHouse("a1", h)

SpecCreate == Init /\ [][NextCreate]_vars

\* ================================================================== claims
\* the status the precedence order gives to a record of values
\* [isBlocked, rejectedRemarks, completionDate, approvedById, startDate]
IsSet(v) == v # NULL /\ v # ""

NonBlank(t) == t # NullText /\ \E i \in 1..Len(t) : t[i] # " "

PrecedenceStatus(v) ==
    CASE v.isBlocked = TRUE -> "blocked"
      [] v.isBlocked # TRUE /\ NonBlank(v.rejectedRemarks) -> "rejected"
      [] v.isBlocked # TRUE /\ ~NonBlank(v.rejectedRemarks)
            /\ IsSet(v.completionDate) /\ IsSet(v.approvedById) -> "completed"
      [] v.isBlocked # TRUE /\ ~NonBlank(v.rejectedRemarks)
            /\ IsSet(v.completionDate) /\ ~IsSet(v.approvedById) -> "review"
      [] v.isBlocked # TRUE /\ ~NonBlank(v.rejectedRemarks)
            /\ ~IsSet(v.completionDate) /\ IsSet(v.startDate) -> "in_progress"
      [] OTHER -> "pending"

WorkflowFields == {"isBlocked", "rejectedRemarks", "completionDate", "approvedById", "startDate"}

\* incoming value if the field is in the request, else the existing value
EffectiveValues(row, body) == [f \in WorkflowFields |-> IF Has(body, f) THEN body[f] ELSE row[f]]

StoredValues(row) == [f \in WorkflowFields |-> row[f]]

\* C1: every update that succeeds without an explicit reviewer/admin status stores the
\* status that the precedence order gives to the effective values.
C1_StatusFollowsPrecedence ==
    \A caller \in Users, id \in DOMAIN acts, body \in ActivityBodies :
        LET r == UpdateHouseActivityResult(Tables, caller, id, body, 0)
        IN  (r.code = 200 /\ ~Explicit(caller, body))
                => r.tables.acts[id].status = PrecedenceStatus(EffectiveValues(acts[id], body))

\* an update of the rejection remarks alone took an approved, finished activity to rejected
C1_Witness ==
    /\ last.op = "updateHouseActivity" /\ last.code = 200
    /\ last.body = [rejectedRemarks |-> <<"x">>]
    /\ acts[last.target].status = "rejected"
    /\ acts[last.target].approvedById # NULL
    /\ acts[last.target].completionDate # NULL

\* C2: an activity whose latest successful update carried no explicit reviewer/admin
\* status has the status that the precedence order gives to its stored fields, and
\* every stored status is one of the six.
C2_StoredStatusDerivable ==
    /\ \A id \in DOMAIN acts : acts[id].status \in ActivityStatuses
    /\ (last.op = "updateHouseActivity" /\ last.code = 200 /\ ~Explicit(last.caller, last.body))
          => acts[last.target].status = PrecedenceStatus(StoredValues(acts[last.target]))

\* C7: applying one payload twice leaves the store as applying it once does.
C7_Idempotent ==
    \A caller \in Users, id \in DOMAIN acts, body \in ActivityBodies :
        LET once == UpdateHouseActivityResult(Tables, caller, id, body, 0)
            twice == UpdateHouseActivityResult(once.tables, caller, id, body, 0)
        IN  once.code = 200 => twice.tables = once.tables

\* C8: a surveyor who is not the assignee and does not assign themselves is refused
\* and nothing changes.
C8_NonOwnerForbidden ==
    \A caller \in Surveyors, id \in DOMAIN acts, body \in ActivityBodies :
        LET r == UpdateHouseActivityResult(Tables, caller, id, body, 0)
        IN  (/\ acts[id].appUserId \in Users \ {caller}
             /\ ~Has(body, "appUserId")
             /\ (Has(body, "remarks") \/ Has(body, "startDate") \/ Has(body, "completionDate")))
                => (r.code = 403 /\ r.tables = Tables)

\* the number of activities of house h in the activity table A whose status is completed
NumberCompleted(A, h) == Cardinality({k \in DOMAIN A : k[1] = h /\ A[k].status = "completed"})

NumberOfActivities(A, h) == Cardinality({k \in DOMAIN A : k[1] = h})

\* requests that move an activity's status, by each way the handler has of moving it
StatusBodies ==
    {[completionDate |-> D1], [completionDate |-> NULL], [approvedById |-> NULL],
     [completionDate |-> D1, approvedById |-> "r1"], [rejectedRemarks |-> <<"x">>],
     [status |-> "completed"], [status |-> "pending"]}
    \cup {[isBlocked |-> b] : b \in BOOLEAN}

ApproveCompletion == [completionDate |-> D1, approvedById |-> "r1"]

\* what Scenario B says of one request of the sequence, on house h with activity id
ScenarioBStep(caller, id) ==
    LET h == id[1]
        r == UpdateHouseActivityResult(Tables, caller, id, ApproveCompletion, 0)
        pid == houses[h].projectId
    IN  (/\ pid # NoProject
         /\ r.code = 200
         /\ acts[id].status # "completed"
         /\ r.tables.acts[id].status = "completed")
            => IF NumberCompleted(r.tables.acts, h) = NumberOfActivities(acts, h)
               THEN /\ r.tables.houses[h].status = "completed"
                    /\ r.tables.houses[h].progress = <<100, 1>>
                    /\ r.tables.projects[pid].housesCompleted = projects[pid].housesCompleted + 1
               ELSE /\ r.tables.houses[h].status = houses[h].status
                    /\ r.tables.projects = projects

C9_Atomic ==
    \A caller \in Users, id \in DOMAIN acts, body \in ActivityBodies :
        ActivityEarlyCode(Tables, caller, id, body) = 0 =>
            \A fault \in 1..Len(ActivityWrites(Tables, caller, id, body)) :
                UpdateHouseActivityResult(Tables, caller, id, body, fault).tables = Tables

\* C10: every project's housesCompleted is the number of completed houses that
\* reference the project.
C10_CounterIsCount ==
    \A p \in DOMAIN projects :
        projects[p].housesCompleted
            = Cardinality({h \in DOMAIN houses : houses[h].projectId = p /\ houses[h].status = "completed"})

\* C11: every project's housesCompleted is >= 0 in every reachable state, and a
\* decrement applied while the counter is 0 (a completed house is deleted, or leaves
\* completed) leaves it at 0.
C11_CounterNeverNegative ==
    /\ \A p \in DOMAIN projects : projects[p].housesCompleted >= 0
    /\ \A h \in DOMAIN houses :
          LET p == houses[h].projectId
              deleted == DeleteHouseResult(Tables, "a1", h, 0)
          IN  (houses[h].status = "completed" /\ p \in DOMAIN projects
                  /\ projects[p].housesCompleted = 0)
                  => (deleted.code = 200 /\ deleted.tables.projects[p].housesCompleted = 0)
    /\ \A id \in DOMAIN acts :
          LET p == houses[id[1]].projectId
              r == UpdateHouseActivityResult(Tables, "r1", id, [isBlocked |-> TRUE], 0)
          IN  (p \in DOMAIN projects /\ projects[p].housesCompleted = 0)
                  => r.tables.projects[p].housesCompleted = 0

\* a completed house has just been deleted while the counter of its project was 0
C11_Witness ==
    /\ last.op = "deleteHouse" /\ last.code = 200 /\ last.floored
    /\ \E p \in DOMAIN projects : projects[p].housesCompleted = 0

\* the activities of house h in the activity table A
ActivitiesOf(A, h) == {k \in DOMAIN A : k[1] = h}

\* C12: a successful create-house with N >= 1 active templates leaves exactly one
\* activity per active template and none for an inactive one, all pending, and a house
\* with totalActivities = N, completedActivities = 0 and progress 0.
C12_OneActivityPerActiveTemplate ==
    \A caller \in Users, body \in HouseBodies, h \in HouseIds \ DOMAIN houses :
        LET r == CreateHouseResult(Tables, templates, caller, body, h, 0)
            w == CreateHouseWrites(Tables, templates, body, h)
        IN  r.code = 201 =>
                /\ templates # {}
                /\ ActivitiesOf(r.tables.acts, h) = {h} \X templates
                /\ \A k \in ActivitiesOf(r.tables.acts, h) : r.tables.acts[k].status = "pending"
                /\ r.tables.houses[h].totalActivities = Cardinality(templates)
                /\ r.tables.houses[h].completedActivities = 0
                /\ r.tables.houses[h].progress[1] = 0
                /\ r.tables = w[Len(w)]

\* a house has just been created while one template was inactive and one active
C12_Witness ==
    /\ last.op = "createHouse" /\ last.code = 201
    /\ templates # {} /\ templates # TemplateIds
    /\ \E h \in DOMAIN houses :
          /\ ActivitiesOf(acts, h) = {h} \X templates
          /\ houses[h].totalActivities = Cardinality(templates)

\* C13: when there is no active template, or a statement of the creation fails, no
\* row of the new house, none of its activities and no change of a project counter
\* is left.
C13_CreateAllOrNothing ==
    \A caller \in Users, body \in HouseBodies, h \in HouseIds \ DOMAIN houses :
        LET none == CreateHouseResult(Tables, templates, caller, body, h, 0)
            w == CreateHouseWrites(Tables, templates, body, h)
            NothingLeft(r) == /\ r.code # 201
                              /\ h \notin DOMAIN r.tables.houses
                              /\ ActivitiesOf(r.tables.acts, h) = {}
                              /\ r.tables.projects = projects
        IN  /\ templates = {} => NothingLeft(none)
            /\ CreateHouseEarlyCode(Tables, templates, caller, body) = 0 =>
                  \A fault \in 1..Len(w) :
                      NothingLeft(CreateHouseFaultResult(Tables, templates, caller, body, h, fault))

\* a creation of a completed house in a project has just failed and left nothing
C13_Witness ==
    /\ last.op = "createHouse" /\ last.code = 500
    /\ Has(last.body, "status") /\ last.body.status = "completed"
    /\ last.target[1] \notin DOMAIN houses
    /\ ActivitiesOf(acts, last.target[1]) = {}
    /\ templates # {}

\* the fields of b laid over those of a
Merge(a, b) == [f \in (DOMAIN a) \cup (DOMAIN b) |-> IF f \in DOMAIN b THEN b[f] ELSE a[f]]

\* what a request may carry besides its status
Companions ==
    {EmptyBody, [isBlocked |-> TRUE], [rejectedRemarks |-> <<"x">>], [remarks |-> "r"],
     [startDate |-> D1], [completionDate |-> D1, approvedById |-> "r1"]}

\* C14: a reviewer's or admin's explicit status out of the six is the stored status
\* after the update, whatever the effective workflow fields are.
C14_ExplicitStatusStored ==
    \A caller \in Reviewers \cup Admins, id \in DOMAIN acts, s \in ActivityStatuses, c \in Companions :
        LET r == UpdateHouseActivityResult(Tables, caller, id, Merge(c, [status |-> s]), 0)
        IN  r.code = 200 /\ r.tables.acts[id].status = s

\* a reviewer has just set a blocked activity to pending by explicit status
C14_Witness ==
    /\ last.op = "updateHouseActivity" /\ last.code = 200
    /\ last.caller = "r1" /\ last.body = [status |-> "pending"]
    /\ acts[last.target].status = "pending"
    /\ acts[last.target].isBlocked = TRUE

\* C15: an update whose status is outside the six values is refused with a client
\* error and changes no row, for every role and whatever else the request carries.
C15_InvalidStatusRefused ==
    \A caller \in Users, id \in DOMAIN acts, c \in Companions :
        LET r == UpdateHouseActivityResult(Tables, caller, id, Merge(c, [status |-> "bogus"]), 0)
        IN  r.code = 400 /\ r.tables = Tables

\* the reviewer-only part of a request
ReviewerOnlyBodies ==
    {[isBlocked |-> TRUE], [rejectedRemarks |-> <<"x">>], [approvedById |-> "r1"]}
    \cup {[status |-> s] : s \in {"pending", "completed"}}

\* the surveyor's part of a request
SurveyorBodies ==
    {EmptyBody, [remarks |-> "r"], [startDate |-> D1], [completionDate |-> D1]}

\* C16: two requests of one surveyor on one state that agree on startDate,
\* completionDate, remarks and appUserId leave the same activity, house and project,
\* whatever isBlocked, rejectedRemarks, approvedById or status they carry.
C16_SurveyorIgnoresReviewerFields ==
    \A caller \in Surveyors, id \in DOMAIN acts, own \in SurveyorBodies, x, y \in ReviewerOnlyBodies :
        UpdateHouseActivityResult(Tables, caller, id, Merge(own, x), 0).tables
            = UpdateHouseActivityResult(Tables, caller, id, Merge(own, y), 0).tables

\* C17: an update in which a surveyor supplies no field a surveyor may change (only
\* reviewer fields, or fields together with another user's appUserId) is refused and
\* leaves every row as it was.
C17_NothingPermittedRefused ==
    \A caller \in Surveyors, id \in DOMAIN acts :
        /\ \A x \in ReviewerOnlyBodies :
              LET r == UpdateHouseActivityResult(Tables, caller, id, x, 0)
              IN  r.code # 200 /\ r.tables = Tables
        /\ \A own \in SurveyorBodies, other \in Surveyors \ {caller} :
              LET r == UpdateHouseActivityResult(Tables, caller, id, Merge(own, [appUserId |-> other]), 0)
              IN  r.code # 200 /\ r.tables = Tables

\* C18: after a successful update whose resulting status is completed the stored
\* completionDate is not null, and after a successful update of an activity without
\* startDate whose resulting status is review the stored startDate is not null.
C18_DatesFollowStatus ==
    \A caller \in Users, id \in DOMAIN acts, body \in ActivityBodies :
        LET r == UpdateHouseActivityResult(Tables, caller, id, body, 0)
        IN  r.code = 200 =>
                /\ r.tables.acts[id].status = "completed" => r.tables.acts[id].completionDate # NULL
                /\ (acts[id].startDate = NULL /\ r.tables.acts[id].status = "review")
                      => r.tables.acts[id].startDate # NULL

\* C19: a reviewer's or admin's house update that moves a house of a project into
\* completed (explicit status, or completedActivities = totalActivities > 0) succeeds,
\* stores the status and raises the project counter by 1; one that moves it out of
\* completed lowers the counter by 1 with the floor at 0.
C19_HouseUpdateMovesCounter ==
    \A caller \in Reviewers \cup Admins, h \in DOMAIN houses :
        LET p == houses[h].projectId
            Into(body) ==
                LET r == UpdateHouseResult(Tables, caller, h, body, 0)
                IN  /\ r.code = 200
                    /\ r.tables.houses[h].status = "completed"
                    /\ r.tables.projects[p].housesCompleted = projects[p].housesCompleted + 1
            OutOf(body) ==
                LET r == UpdateHouseResult(Tables, caller, h, body, 0)
                IN  /\ r.code = 200
                    /\ r.tables.houses[h].status = "in_progress"
                    /\ r.tables.projects[p].housesCompleted
                          = IF projects[p].housesCompleted > 0 THEN projects[p].housesCompleted - 1 ELSE 0
        IN  p \in DOMAIN projects =>
                IF houses[h].status # "completed"
                THEN /\ Into([status |-> "completed"])
                     /\ houses[h].totalActivities > 0
                           => Into([completedActivities |-> houses[h].totalActivities])
                ELSE OutOf([status |-> "in_progress"])

\* C20: a house update that changes the project of a completed house lowers the
\* counter of the old project by 1 (floor 0) and raises that of the new project by 1
\* in the same request, and leaves every other project alone.
C20_ProjectChangeMovesCounters ==
    \A caller \in Reviewers \cup Admins, h \in DOMAIN houses :
        \A new \in ((DOMAIN projects) \cup {NoProject}) \ {houses[h].projectId} :
            LET old == houses[h].projectId
                r == UpdateHouseResult(Tables, caller, h, [projectId |-> new], 0)
            IN  houses[h].status = "completed" =>
                    /\ r.code = 200
                    /\ r.tables.houses[h].projectId = new
                    /\ \A q \in DOMAIN projects :
                          r.tables.projects[q].housesCompleted
                             = IF q = old
                               THEN (IF projects[q].housesCompleted > 0
                                     THEN projects[q].housesCompleted - 1 ELSE 0)
                               ELSE IF q = new THEN projects[q].housesCompleted + 1
                               ELSE projects[q].housesCompleted

\* ---------------------------------------------------------------------------
\* C21: in every reachable state every house has
\* 0 <= completedActivities <= totalActivities, and so a progress between 0 and 100,
\* whatever create-house, update-house, update-house-activity and
\* delete-house-activity requests have run (a house update may ask for more completed
\* activities than the house has; the project requests and delete-house run as well).
InUnitRange(f) == f[2] > 0 /\ 0 <= f[1] /\ f[1] <= 100 * f[2]

HouseTables(body) ==
    LET T1 == CreateProjectResult(EmptyTables, "a1", [title |-> "t", totalHouses |-> 1], 1).tables
    IN  CreateHouseResult(T1, TemplateIds, "a1", body, 1, 0).tables

InitHouse ==
    /\ templates = TemplateIds
    /\ \E body \in HouseBodies \ {EmptyBody} :
          /\ projects = HouseTables(body).projects
          /\ houses = HouseTables(body).houses
          /\ acts = HouseTables(body).acts
    /\ last = NoRequest
    /\ inflight = NoneInFlight

\* a reviewer completes and approves, blocks, sets the status back to pending
HouseRequests ==
    {<<"r1", [completionDate |-> D1, approvedById |-> "r1"]>>,
     <<"r1", [isBlocked |-> TRUE]>>,
     <<"r1", [status |-> "pending"]>>}

NextHouse ==
    \E req \in HouseRequests, id \in ActivityIds : UpdateHouseActivity(req[1], id, req[2])

SpecHouse == InitHouse /\ [][NextHouse]_vars

\* the update moves the activity's status into or out of completed
Moved(before, after) == (before = "completed") # (after = "completed")

\* C22: the automatic house-status change of a house-activity update has two outcomes:
\* completed when the recount equals totalActivities > 0 and the house was not
\* completed, in_progress when the recount is below totalActivities and the house was
\* completed; in every other case the status stays (a delayed house with unfinished
\* activities stays delayed, and no update produces delayed).
C22_TwoAutomaticOutcomes ==
    /\ \A req \in HouseRequests, id \in DOMAIN acts :
          LET r == UpdateHouseActivityResult(Tables, req[1], id, req[2], 0)
              h == id[1]
              before == houses[h].status
              after == r.tables.houses[h].status
              c == NumberCompleted(r.tables.acts, h)
              t == houses[h].totalActivities
          IN  (r.code = 200 /\ Moved(acts[id].status, r.tables.acts[id].status))
                  => after = (IF c = t /\ t > 0 /\ before # "completed" THEN "completed"
                              ELSE IF c < t /\ before = "completed" THEN "in_progress"
                              ELSE before)
    /\ \A c \in 0..NumTemplates, t \in 0..NumTemplates :
          /\ c < t => RollupHouseStatus(c, t, "delayed") = "delayed"
          /\ \A s \in HouseStatuses : RollupHouseStatus(c, t, s) = "delayed" => s = "delayed"

\* a completed house was reopened by an update that took an activity out of completed
C22_Witness ==
    /\ last.op = "updateHouseActivity" /\ last.code = 200
    /\ acts[last.target].status # "completed"
    /\ houses[last.target[1]].status = "in_progress"
    /\ houses[last.target[1]].completedActivities = houses[last.target[1]].totalActivities - 1
    /\ \E h \in DOMAIN houses, p \in DOMAIN projects :
          houses[h].projectId = p /\ projects[p].housesCompleted = 0 /\ houses[h].totalActivities > 0
    /\ last.body = [status |-> "pending"]
    /\ acts[last.target].approvedById = "r1" /\ acts[last.target].isBlocked = FALSE

\* C23: a house-activity update that does not move the activity's status into or out
\* of completed leaves the house's completedActivities, progress and status and the
\* housesCompleted of every project as they were.
C23_FrameWithoutCompletion ==
    \A req \in HouseRequests, id \in DOMAIN acts :
        LET r == UpdateHouseActivityResult(Tables, req[1], id, req[2], 0)
        IN  (r.code = 200 /\ ~Moved(acts[id].status, r.tables.acts[id].status))
                => /\ r.tables.houses = houses
                   /\ r.tables.projects = projects

\* an update that completed nothing was made on a house that was created completed,
\* and the house is still completed with no completed activity
C23_Witness ==
    /\ last.op = "updateHouseActivity" /\ last.code = 200
    /\ acts[last.target].status \notin {"completed", "pending"}
    /\ houses[last.target[1]].status = "completed"
    /\ houses[last.target[1]].completedActivities = 0
    /\ NumberCompleted(acts, last.target[1]) = 0

\* requests of a reviewer that carry a field of the surveyor branch
ReviewerFieldBodies ==
    {[startDate |-> D1], [completionDate |-> D1], [completionDate |-> D1, approvedById |-> "r1"],
     [appUserId |-> "s1", remarks |-> "r"]}

\* C24: a reviewer's or admin's house-activity update that succeeds stores the
\* startDate, completionDate and appUserId it supplies, so that the stored fields are
\* the ones the status was derived from.
C24_ReviewerStoresWorkflowFields ==
    \A caller \in Reviewers \cup Admins, id \in DOMAIN acts, body \in ReviewerFieldBodies :
        LET r == UpdateHouseActivityResult(Tables, caller, id, body, 0)
        IN  r.code = 200 =>
                \A f \in {"startDate", "completionDate", "appUserId"} :
                    Has(body, f) => r.tables.acts[id][f] = body[f]

\* housesCompleted of project p after `delta` was added, never below 0
CounterMoved(p, delta) ==
    IF projects[p].housesCompleted + delta < 0 THEN 0 ELSE projects[p].housesCompleted + delta

\* C25: deleting a completed house that has a projectId lowers that project's
\* housesCompleted by 1, never below 0, and deleting any other house leaves every
\* counter unchanged; creating a house with status completed and a projectId raises
\* that project's housesCompleted by 1, and creating any other house raises none.
C25_CreateAndDeleteMoveCounter ==
    /\ \A h \in DOMAIN houses :
          LET r == DeleteHouseResult(Tables, "a1", h, 0)
          IN  /\ r.code = 200
              /\ h \notin DOMAIN r.tables.houses
              /\ \A p \in DOMAIN projects :
                    r.tables.projects[p].housesCompleted
                        = IF houses[h].status = "completed" /\ houses[h].projectId = p
                          THEN CounterMoved(p, -1) ELSE projects[p].housesCompleted
    /\ \A h \in HouseIds \ DOMAIN houses, caller \in Callers, body \in HouseBodies :
          LET r == CreateHouseResult(Tables, templates, caller, body, h, 0)
          IN  IF r.code = 201
              THEN \A p \in DOMAIN projects :
                      r.tables.projects[p].housesCompleted
                          = IF Has(body, "status") /\ body.status = "completed"
                               /\ Has(body, "projectId") /\ body.projectId = p
                            THEN CounterMoved(p, 1) ELSE projects[p].housesCompleted
              ELSE r.tables = Tables

\* a completed house was deleted while the counter of its project was 0
C25_Witness ==
    /\ last.op = "deleteHouse" /\ last.code = 200 /\ last.floored
    /\ \E p \in DOMAIN projects : projects[p].housesCompleted = 0

\* ------------------------------- two house-activity updates handled at once
\* Every pool.query of the handler is a statement of its own on a pooled connection,
\* committed when it returns; between two awaits the handler of another request runs.
\* The steps below are the statements of PUT /api/house-activities/:id in order.

\* the store after a project and a house in it were created and all but the first two
\* activities of the house were completed and approved, one request after the other
RECURSIVE CompleteFrom(_, _)
CompleteFrom(T, t) ==
    IF t > NumTemplates THEN T
    ELSE CompleteFrom(UpdateHouseActivityResult(T, "r1", <<1, t>>,
                                                [completionDate |-> D1, approvedById |-> "r1"], 0).tables,
                      t + 1)

ConcurrentTables == CompleteFrom(HouseTables([name |-> "n", projectId |-> 1]), 3)

InitConcurrent ==
    /\ templates = TemplateIds
    /\ projects = ConcurrentTables.projects
    /\ houses = ConcurrentTables.houses
    /\ acts = ConcurrentTables.acts
    /\ last = NoRequest
    /\ inflight = NoneInFlight

\* a reviewer completes and approves, or sets the status back to pending
ConcurrentRequests ==
    {<<"r1", [completionDate |-> D1, approvedById |-> "r1"]>>, <<"r1", [status |-> "pending"]>>}

\* SELECT ... FROM app_house_activities WHERE id = $1, then the validation and the
\* SET list computed from the row that was read
Receive(r, caller, id, body) ==
    /\ inflight[r].pc = "idle"
    /\ ActivityEarlyCode(Tables, caller, id, body) = 0
    /\ inflight' = [inflight EXCEPT ![r] = [Idle EXCEPT !.pc = "update", !.caller = caller, !.id = id,
                                                        !.body = body, !.existing = acts[id]]]
    /\ UNCHANGED <<templates, projects, houses, acts, last>>

statusChanged(q) ==
    LET previousStatus == q.existing.status
        newStatus == NewStatus(q.existing, q.caller, q.body)
    IN  (previousStatus # "completed" /\ newStatus = "completed")
        \/ (previousStatus = "completed" /\ newStatus # "completed")

\* UPDATE app_house_activities SET ... WHERE id = $n
WriteActivity(r) ==
    LET q == inflight[r]
    IN  /\ q.pc = "update"
        /\ acts' = IF q.id \in DOMAIN acts
                   THEN [acts EXCEPT ![q.id] = ApplyUpdates(@, ActivityUpdates(q.existing, q.caller, q.body))]
                   ELSE acts
        /\ inflight' = [inflight EXCEPT ![r].pc = IF statusChanged(q) THEN "count" ELSE "done"]
        /\ UNCHANGED <<templates, projects, houses, last>>

\* SELECT COUNT(*) ... WHERE house_id = $1 AND status = 'completed'
CountCompleted(r) ==
    LET q == inflight[r]
    IN  /\ q.pc = "count"
        /\ inflight' = [inflight EXCEPT ![r].pc = "info",
                                        ![r].completedCount = CompletedCount(acts, q.id[1])]
        /\ UNCHANGED <<templates, projects, houses, acts, last>>

\* SELECT total_activities, status, project_id FROM app_houses WHERE id = $1
ReadHouseInfo(r) ==
    LET q == inflight[r]
        h == q.id[1]
    IN  /\ q.pc = "info"
        /\ inflight' = IF h \in DOMAIN houses
                       THEN [inflight EXCEPT ![r].pc = "counts",
                                             ![r].houseInfo = [totalActivities |-> houses[h].totalActivities,
                                                               status |-> houses[h].status,
                                                               projectId |-> houses[h].projectId]]
                       ELSE [inflight EXCEPT ![r].pc = "done"]
        /\ UNCHANGED <<templates, projects, houses, acts, last>>

newHouseStatus(q) ==
    RollupHouseStatus(q.completedCount, q.houseInfo.totalActivities, q.houseInfo.status)

\* UPDATE app_houses SET completed_activities = $1, progress = $2 WHERE id = $3
WriteCounts(r) ==
    LET q == inflight[r]
        h == q.id[1]
    IN  /\ q.pc = "counts"
        /\ houses' = IF h \in DOMAIN houses
                     THEN [houses EXCEPT ![h].completedActivities = q.completedCount,
                                         ![h].progress = Progress(q.completedCount, q.houseInfo.totalActivities)]
                     ELSE houses
        /\ inflight' = [inflight EXCEPT ![r].pc = IF newHouseStatus(q) # q.houseInfo.status
                                                  THEN "status" ELSE "done"]
        /\ UNCHANGED <<templates, projects, acts, last>>

projectMoves(q) ==
    /\ q.houseInfo.projectId # NoProject
    /\ (newHouseStatus(q) = "completed") # (q.houseInfo.status = "completed")

\* UPDATE app_houses SET status = $1 WHERE id = $2
WriteStatus(r) ==
    LET q == inflight[r]
        h == q.id[1]
    IN  /\ q.pc = "status"
        /\ houses' = IF h \in DOMAIN houses THEN [houses EXCEPT ![h].status = newHouseStatus(q)] ELSE houses
        /\ inflight' = [inflight EXCEPT ![r].pc = IF projectMoves(q) THEN "project" ELSE "done"]
        /\ UNCHANGED <<templates, projects, acts, last>>

\* UPDATE app_projects SET houses_completed = houses_completed + 1, or
\* GREATEST(houses_completed - 1, 0)
WriteProject(r) ==
    LET q == inflight[r]
    IN  /\ q.pc = "project"
        /\ projects' = IF newHouseStatus(q) = "completed" /\ q.houseInfo.status # "completed"
                       THEN Increment(projects, q.houseInfo.projectId)
                       ELSE Decrement(projects, q.houseInfo.projectId)
        /\ inflight' = [inflight EXCEPT ![r].pc = "done"]
        /\ UNCHANGED <<templates, houses, acts, last>>

NextConcurrent ==
    \/ \E r \in Slots, req \in ConcurrentRequests, id \in ActivityIds : Receive(r, req[1], id, req[2])
    \/ \E r \in Slots : WriteActivity(r)
    \/ \E r \in Slots : CountCompleted(r)
    \/ \E r \in Slots : ReadHouseInfo(r)
    \/ \E r \in Slots : WriteCounts(r)
    \/ \E r \in Slots : WriteStatus(r)
    \/ \E r \in Slots : WriteProject(r)

SpecConcurrent == InitConcurrent /\ [][NextConcurrent]_vars

\* both handlers have run to their response
BothFinished == \A r \in Slots : inflight[r].pc = "done"

\* the two requests completed the two activities of the house that were unfinished
CompletedLastTwo ==
    /\ BothFinished
    /\ inflight[1].id # inflight[2].id
    /\ \A r \in Slots :
          /\ inflight[r].body = ApproveCompletion
          /\ inflight[r].existing.status # "completed"

\* C26: under every interleaving of two concurrent house-activity updates that complete
\* the last two unfinished activities of one house with a projectId, after both have
\* finished the project's housesCompleted is exactly 1 higher than before, not 2.
C26_ConcurrentCompletionCountsOnce ==
    CompletedLastTwo => projects[1].housesCompleted = ConcurrentTables.projects[1].housesCompleted + 1

\* C27: under every interleaving of two concurrent house-activity updates on two
\* different activities of one house, after both have finished the stored
\* completedActivities of the house is the number of its completed activities.
C27_ConcurrentRecountIsFresh ==
    (BothFinished /\ inflight[1].id # inflight[2].id /\ inflight[1].id[1] = inflight[2].id[1])
        => houses[inflight[1].id[1]].completedActivities = NumberCompleted(acts, inflight[1].id[1])

\* C28: in every reachable state every project has housesCompleted <= totalHouses; the
\* bound that project creation and project update put on their input also holds after
\* the increments of house creation, house update and house-activity update.
C28_CompletedWithinTotal ==
    \A p \in DOMAIN projects : projects[p].housesCompleted <= projects[p].totalHouses

\* C29: after any sequence of create-house, update-house-activity and
\* delete-house-activity requests, totalActivities of every house is the number of
\* its activity rows and completedActivities the number of its completed rows.
C29_CountersMatchRows ==
    \A h \in DOMAIN houses :
        /\ houses[h].totalActivities = NumberOfActivities(acts, h)
        /\ houses[h].completedActivities = NumberCompleted(acts, h)

\* no failure, a failure inside the transaction, a failure of the read-back after COMMIT
CreateFaults == 0..2

\* C30: the response of create-house agrees with the store: when the response is 400
\* or 500, no row of the new house and none of its activities exists, also when the
\* query that fails is the read-back SELECT that follows COMMIT.
C30_CreateResponseAgreesWithStore ==
    \A caller \in Callers, body \in HouseBodies, h \in HouseIds \ DOMAIN houses, fault \in CreateFaults :
        LET r == CreateHouseResult(Tables, templates, caller, body, h, fault)
        IN  r.code \in {400, 500} =>
                /\ h \notin DOMAIN r.tables.houses
                /\ ActivitiesOf(r.tables.acts, h) = {}

====
